---- MODULE Spec2Model ----
(***************************************************************************)
(* Model of the event registration bot (src/form_bot.py): the batch runner *)
(* run_from_csv, the per-record processor process_test_case with its       *)
(* stages navigate_to_form, fill_form, submit_form, check_result and       *)
(* take_screenshot, the report writer save_results_log and main.           *)
(*                                                                         *)
(* The browser (Selenium WebDriver) is the environment: which page a URL   *)
(* loads, which elements it has, which call raises and what the response   *)
(* page says are chosen nondeterministically from small sets.             *)
(***************************************************************************)
EXTENDS Integers, Sequences, FiniteSets, TLC

\* ---------------------------------------------------------------- bounds
MaxRecords == 2

\* ------------------------------------------------------- Python values
\* check_result returns True, False or None as its first component
PyTrue == "True"
PyFalse == "False"
PyNone == "None"

\* truth value of a Python object in a conditional (`if success`)
Truthy(v) == v = PyTrue

\* ------------------------------------------------------- string helpers
LowerChar(c) ==
    CASE c = "A" -> "a" [] c = "B" -> "b" [] c = "C" -> "c" [] c = "D" -> "d"
      [] c = "E" -> "e" [] c = "F" -> "f" [] c = "G" -> "g" [] c = "H" -> "h"
      [] c = "I" -> "i" [] c = "J" -> "j" [] c = "K" -> "k" [] c = "L" -> "l"
      [] c = "M" -> "m" [] c = "N" -> "n" [] c = "O" -> "o" [] c = "P" -> "p"
      [] c = "Q" -> "q" [] c = "R" -> "r" [] c = "S" -> "s" [] c = "T" -> "t"
      [] c = "U" -> "u" [] c = "V" -> "v" [] c = "W" -> "w" [] c = "X" -> "x"
      [] c = "Y" -> "y" [] c = "Z" -> "z" [] OTHER -> c

\* str.lower(): from[k] is the lower case of s from position k on
Lower(s) ==
    LET from[k \in 1..(Len(s) + 1)] ==
            IF k > Len(s) THEN ""
            ELSE LowerChar(SubSeq(s, k, k)) \o from[k + 1]
    IN  from[1]

\* Python's `sub in s` for strings
Contains(sub, s) ==
    \E t \in { s } :
        \E k \in 1..(Len(t) - Len(sub) + 1) : SubSeq(t, k, k + Len(sub) - 1) = sub

\* -------------------------------------------------------- check_result
success_indicators ==
    << "success", "thank you", "registered", "confirmation",
       "submitted", "complete", "received", "congratulations" >>

error_indicators ==
    << "error", "invalid", "required", "missing", "failed",
       "incorrect", "please", "must", "cannot" >>

redirect_words == << "success", "thank", "confirm" >>

\* `for indicator in xs: if indicator in text: return ...` finds a match
AnyIn(xs, text) == \E k \in 1..Len(xs) : Contains(xs[k], text)

\* Classify with the error keywords looked for before the success keywords
Classify_ErrorsFirst(source, url) ==
    LET page_text == Lower(source)
        lower_url == Lower(url)
    IN  IF AnyIn(error_indicators, page_text) THEN << PyFalse, "Error detected" >>
        ELSE IF AnyIn(success_indicators, page_text)
             THEN << PyTrue, "Success" >>
        ELSE IF AnyIn(redirect_words, lower_url) THEN << PyTrue, "Success" >>
        ELSE << PyNone, "Unknown" >>

\* Classify with the URL looked at before the error keywords
Classify_UrlBeforeErrors(source, url) ==
    LET page_text == Lower(source)
        lower_url == Lower(url)
    IN  IF AnyIn(success_indicators, page_text) THEN << PyTrue, "Success" >>
        ELSE IF AnyIn(redirect_words, lower_url) THEN << PyTrue, "Success" >>
        ELSE IF AnyIn(error_indicators, page_text)
             THEN << PyFalse, "Error detected" >>
        ELSE << PyNone, "Unknown" >>

\* Classify without the look at the URL
Classify_NoRedirect(source, url) ==
    LET page_text == Lower(source)
    IN  IF AnyIn(success_indicators, page_text) THEN << PyTrue, "Success" >>
        ELSE IF AnyIn(error_indicators, page_text)
             THEN << PyFalse, "Error detected" >>
        ELSE << PyNone, "Unknown" >>

\* Classify that reports an unclear page as a failure
Classify_UnclearIsFailure(source, url) ==
    LET page_text == Lower(source)
        lower_url == Lower(url)
    IN  IF AnyIn(success_indicators, page_text) THEN << PyTrue, "Success" >>
        ELSE IF AnyIn(error_indicators, page_text)
             THEN << PyFalse, "Error detected" >>
        ELSE IF AnyIn(redirect_words, lower_url) THEN << PyTrue, "Success" >>
        ELSE << PyFalse, "Unknown" >>

\* check_result on a readable page: the pair (success, message)
Classify(source, url) ==
    LET page_text == Lower(source)
        lower_url == Lower(url)
    IN  IF AnyIn(success_indicators, page_text) THEN << PyTrue, "Success" >>
        ELSE IF AnyIn(error_indicators, page_text)
             THEN << PyFalse, "Error detected" >>
        ELSE IF AnyIn(redirect_words, lower_url) THEN << PyTrue, "Success" >>
        ELSE << PyNone, "Unknown" >>

\* check_result that reports a success when reading the page raised
check_result_SuccessOnError(source, url, raises) ==
    IF raises THEN << PyTrue, "Success" >>
    ELSE Classify(source, url)

\* check_result, reading the page may raise (raises = TRUE)
check_result(source, url, raises) ==
    IF raises THEN << PyFalse, "Error checking result" >>
    ELSE Classify(source, url)

\* ------------------------------------------------------- record source
RequiredKeys == {"name", "email", "phone", "event", "url"}

\* the k-th data row of the CSV file, under a full header
Person(k) ==
    [ name  |-> "User" \o ToString(k),
      email |-> "user" \o ToString(k) \o "@example.com",
      phone |-> "555-010" \o ToString(k),
      event |-> IF k % 2 = 1 THEN "Workshop" ELSE "Seminar",
      url   |-> "https://example.com/form" \o ToString(k) ]

\* csv.DictReader: every row is a dict keyed by the header row's columns
Row(header, k) == [ key \in header |-> Person(k)[key] ]

\* the header rows the record source may have
Headers == { RequiredKeys, RequiredKeys \ {"url"}, RequiredKeys \ {"phone"} }

\* dict.get(key, 'Unknown')
Get(d, key) == IF key \in DOMAIN d THEN d[key] ELSE "Unknown"

\* ------------------------------------------------------------ the browser
\* phone_selectors with "mobile" tried first
phone_selectors_MobileFirst == << "mobile", "phone", "phone_number", "telephone" >>

phone_selectors == << "phone", "phone_number", "telephone", "mobile" >>

PhoneNames == { phone_selectors[k] : k \in 1..Len(phone_selectors) }

\* By.TYPE is not a locator strategy of every Selenium release: evaluating it
\* raises AttributeError where it is missing
submit_selectors ==
    << << "type", "submit" >>,
       << "xpath", "//button[contains(text(), 'Submit')]" >>,
       << "xpath", "//input[@value='Submit']" >>,
       << "xpath", "//button[contains(@class, 'submit')]" >> >>

SubmitControls == { submit_selectors[k] : k \in 1..Len(submit_selectors) }

EventTexts == { "Workshop", "Seminar" }

\* a form page: the named inputs it has, what its element named "event" is
\* ("absent", "select" or "other"), the visible option texts of the select,
\* the values/ids of its radio or checkbox inputs, the submit controls that
\* match each submit selector
MkPage(names, event, options, radios, submit) ==
    [ names |-> names, event |-> event, options |-> options,
      radios |-> radios, submit |-> submit ]

StdPage ==
    MkPage({"name", "email", "phone"}, "select", EventTexts, {},
           {submit_selectors[1]})

FormPages ==
    { [StdPage EXCEPT !.names = {"name", "email"} \cup ph] :
          ph \in SUBSET PhoneNames }
    \cup { [StdPage EXCEPT !.names = ns] :
          ns \in { {"email", "phone"}, {"name", "phone"} } }
    \cup { [StdPage EXCEPT !.event = ev[1], !.options = ev[2], !.radios = ev[3]] :
          ev \in { << "absent", {}, {} >>, << "absent", {}, EventTexts >>,
                   << "select", {"Workshop"}, {} >>,
                   << "select", {"Workshop"}, EventTexts >>,
                   << "other", {}, EventTexts >> } }
    \cup { [StdPage EXCEPT !.submit = sub] : sub \in SUBSET SubmitControls }
    \cup { MkPage({"name", "email"}, "absent", {}, {}, {submit_selectors[2]}) }

\* the page shown when nothing was loaded, or after the form was submitted
BlankPage == MkPage({}, "absent", {}, {}, {})

\* what the page shows after a submit click
PageSources ==
    { "<html><body>Thank you for your registration!</body></html>",
      "<html><body>Error: Invalid email format</body></html>",
      "<html><body>Thank you, please correct your phone number</body></html>",
      "<html><body>REGISTERED</body></html>",
      "<html><body>Unsuccessful attempt</body></html>",
      "<html><body>Test page</body></html>" }

ResponseUrls ==
    { "https://example.com/form", "https://example.com/Thanks",
      "https://example.com/confirm?id=1" }

\* ------------------------------------------------------------- fill_form
\* the state a fill_form call works on: status "run" | "ok" | "fail", the
\* lookups made so far, the field values, the clicks made, the option
\* selected, the message of the exception the outer handler caught
FillStart(vals) ==
    [ status |-> "run", queries |-> << >>, values |-> vals,
      clicks |-> << >>, selected |-> "", exc |-> "" ]

Lookup(st, by, what) == [st EXCEPT !.queries = Append(@, << by, what >>)]

Raise(st, msg) == [st EXCEPT !.status = "fail", !.exc = msg]

\* str(KeyError(key))
KeyError(key) == "'" \o key \o "'"

NoSuchElement(what) == "Message: no such element: " \o what

ElementFault(what) == "Message: element not interactable: " \o what

\* field.clear(); field.send_keys(text)
ClearAndType(st, field, text) == [st EXCEPT !.values[field] = "" \o text]

\* lines 120-126 and 128-132: a required field
RequiredStep(p, data, fault, field, st) ==
    IF st.status # "run" THEN st
    ELSE LET q == Lookup(st, "name", field)
         IN  IF field \notin p.names THEN Raise(q, NoSuchElement(field))
             ELSE IF fault = field THEN Raise(q, ElementFault(field))
             ELSE IF field \notin DOMAIN data THEN Raise(q, KeyError(field))
             ELSE ClearAndType(q, field, data[field])

RECURSIVE PhoneLoop(_, _, _)
\* lines 135-142: the candidates in order from position k; the result is
\* << the state after the lookups, the field found or "" >>
PhoneLoop(p, st, k) ==
    IF k > Len(phone_selectors) THEN << st, "" >>
    ELSE LET q == Lookup(st, "name", phone_selectors[k])
         IN  IF phone_selectors[k] \in p.names
             THEN << q, phone_selectors[k] >>
             ELSE PhoneLoop(p, q, k + 1)

\* PhoneStep that goes on when typing into the phone field raised
PhoneStep_ToleratesTypingFault(p, data, fault, st) ==
    IF st.status # "run" THEN st
    ELSE LET found == PhoneLoop(p, st, 1)
             q == found[1]
             phone_field == found[2]
         IN  IF phone_field = "" THEN q
             ELSE IF fault = "phone" THEN q
             ELSE IF "phone" \notin DOMAIN data THEN Raise(q, KeyError("phone"))
             ELSE ClearAndType(q, phone_field, data["phone"])

\* PhoneStep that lets the last failed lookup escape when no candidate exists
PhoneStep_FailsWhenAbsent(p, data, fault, st) ==
    IF st.status # "run" THEN st
    ELSE LET found == PhoneLoop(p, st, 1)
             q == found[1]
             phone_field == found[2]
         IN  IF phone_field = ""
             THEN Raise(q, NoSuchElement(phone_selectors[Len(phone_selectors)]))
             ELSE IF fault = "phone" THEN Raise(q, ElementFault(phone_field))
             ELSE IF "phone" \notin DOMAIN data THEN Raise(q, KeyError("phone"))
             ELSE ClearAndType(q, phone_field, data["phone"])

\* lines 134-149
PhoneStep(p, data, fault, st) ==
    IF st.status # "run" THEN st
    ELSE LET found == PhoneLoop(p, st, 1)
             q == found[1]
             phone_field == found[2]
         IN  IF phone_field = "" THEN q
             ELSE IF fault = "phone" THEN Raise(q, ElementFault(phone_field))
             ELSE IF "phone" \notin DOMAIN data THEN Raise(q, KeyError("phone"))
             ELSE ClearAndType(q, phone_field, data["phone"])

\* lines 157-165: the radio button or checkbox with the event as value or id
EventOption(p, data, fault, st) ==
    IF "event" \notin DOMAIN data THEN Raise(st, KeyError("event"))
    ELSE LET q == Lookup(st, "xpath",
                    "//input[@value='" \o data["event"] \o "' or @id='"
                        \o data["event"] \o "']")
         IN  IF data["event"] \notin p.radios THEN q
             ELSE IF fault = "event" THEN Raise(q, ElementFault("option"))
             ELSE [q EXCEPT !.clicks = Append(@, data["event"])]

\* lines 151-165
EventStep(p, data, fault, st) ==
    IF st.status # "run" THEN st
    ELSE LET q == Lookup(st, "name", "event")
         IN  IF p.event = "absent" THEN EventOption(p, data, fault, q)
             ELSE IF p.event # "select"
                  THEN Raise(q, "Message: Select only works on <select> elements")
             ELSE IF "event" \notin DOMAIN data THEN Raise(q, KeyError("event"))
             ELSE IF fault = "event" THEN Raise(q, ElementFault("event"))
             ELSE IF data["event"] \in p.options
                  THEN [q EXCEPT !.selected = data["event"]]
             ELSE EventOption(p, data, fault, q)

\* lines 167-169
FillEnd(st) == IF st.status = "run" THEN [st EXCEPT !.status = "ok"] ELSE st

\* fill_form(test_data) on page p with field values vals; fault names the
\* step in which an element call raises, "none" when none does
fill_form(p, vals, data, fault) ==
    FillEnd(
      EventStep(p, data, fault,
        PhoneStep(p, data, fault,
          RequiredStep(p, data, fault, "email",
            RequiredStep(p, data, fault, "name", FillStart(vals))))))

FillFaults == { "none", "name", "email", "phone", "event" }

\* ----------------------------------------------------------- submit_form
RECURSIVE SubmitLoop(_, _, _)
\* lines 186-192: the selectors in order from position k; the result is
\* << the lookups made, the position of the selector that matched or 0 >>
SubmitLoop(p, queries, k) ==
    IF k > Len(submit_selectors) THEN << queries, 0 >>
    ELSE LET q == Append(queries, submit_selectors[k])
         IN  IF submit_selectors[k] \in p.submit THEN << q, k >>
             ELSE SubmitLoop(p, q, k + 1)

\* str(e) of the AttributeError that evaluating By.TYPE raises
ByTypeError == "type object 'By' has no attribute 'TYPE'"

\* submit_form that returns True when no selector matched
submit_form_AbsenceIsSuccess(p, byType, clickRaises) ==
    IF ~byType
    THEN [ status |-> "fail", queries |-> << >>, clicks |-> << >>,
           exc |-> ByTypeError, error |-> "Error submitting form: " \o ByTypeError ]
    ELSE LET found == SubmitLoop(p, << >>, 1)
         IN  IF found[2] = 0
             THEN [ status |-> "ok", queries |-> found[1], clicks |-> << >>,
                    exc |-> "", error |-> "" ]
             ELSE IF clickRaises
             THEN [ status |-> "fail", queries |-> found[1], clicks |-> << >>,
                    exc |-> ElementFault("submit"),
                    error |-> "Error submitting form: " \o ElementFault("submit") ]
             ELSE [ status |-> "ok", queries |-> found[1],
                    clicks |-> << submit_selectors[found[2]] >>,
                    exc |-> "", error |-> "" ]

\* submit_form() on page p; byType: By.TYPE exists; clickRaises: the click
\* raises. exc is the message of the exception the handler caught, error the
\* text logged at error level, "" when there is none
submit_form(p, byType, clickRaises) ==
    IF ~byType
    THEN [ status |-> "fail", queries |-> << >>, clicks |-> << >>,
           exc |-> ByTypeError, error |-> "Error submitting form: " \o ByTypeError ]
    ELSE LET found == SubmitLoop(p, << >>, 1)
         IN  IF found[2] = 0
             THEN [ status |-> "fail", queries |-> found[1], clicks |-> << >>,
                    exc |-> "", error |-> "Submit button not found" ]
             ELSE IF clickRaises
             THEN [ status |-> "fail", queries |-> found[1], clicks |-> << >>,
                    exc |-> ElementFault("submit"),
                    error |-> "Error submitting form: " \o ElementFault("submit") ]
             ELSE [ status |-> "ok", queries |-> found[1],
                    clicks |-> << submit_selectors[found[2]] >>,
                    exc |-> "", error |-> "" ]

\* ------------------------------------------------------ save_results_log
\* StatusWord that takes every outcome but False for a success
StatusWord_UnknownIsSuccess(success) ==
    IF success # PyFalse THEN "SUCCESS" ELSE "FAILURE"

\* the status word of a report entry and of the batch log line
StatusWord(success) == IF Truthy(success) THEN "SUCCESS" ELSE "FAILURE"

\* Successful counting every result that is not False, None included
Successful_CountsUnknown(rs) ==
    Cardinality({ k \in 1..Len(rs) : rs[k].success # PyFalse })

\* sum(1 for r in results if r['success'])
Successful(rs) == Cardinality({ k \in 1..Len(rs) : Truthy(rs[k].success) })

\* f"{(s/t)*100:.1f}%": in tenths of a percent, ties to even
RateTenths(s, t) ==
    LET q == (1000 * s) \div t
        r == (1000 * s) % t
    IN  IF 2 * r > t THEN q + 1
        ELSE IF 2 * r = t THEN q + (q % 2)
        ELSE q

RateText(s, t) ==
    ToString(RateTenths(s, t) \div 10) \o "." \o ToString(RateTenths(s, t) % 10) \o "%"

\* Summary that prints a rate of zero for an empty result list
Summary_RateForEmpty(rs) ==
    [ total |-> Len(rs),
      successful |-> Successful(rs),
      failed |-> Len(rs) - Successful(rs),
      rate |-> IF Len(rs) > 0 THEN << RateText(Successful(rs), Len(rs)) >>
               ELSE << "0.0%" >> ]

\* lines 369-377 and 410-420: the summary lines; rate is << >> when omitted
Summary(rs) ==
    [ total |-> Len(rs),
      successful |-> Successful(rs),
      failed |-> Len(rs) - Successful(rs),
      rate |-> IF Len(rs) > 0 THEN << RateText(Successful(rs), Len(rs)) >>
               ELSE << >> ]

\* lines 357-367: one block per result
Entries(rs) ==
    [ k \in 1..Len(rs) |->
        [ test_case |-> rs[k].test_case, name |-> rs[k].name,
          email |-> rs[k].email, phone |-> rs[k].phone, event |-> rs[k].event,
          url |-> rs[k].url, status |-> StatusWord(rs[k].success),
          message |-> rs[k].message ] ]

\* the text save_results_log writes
Report(rs) == [ entries |-> Entries(rs), summary |-> Summary(rs) ]

\* ----------------------------------------------------- process_test_case
StageOrder ==
    << "navigate_to_form", "fill_form", "submit_form", "check_result",
       "take_screenshot" >>

\* Gate that goes on to fill_form after a failed navigation
Gate_ContinuesAfterNavigation(stage, ok) ==
    IF stage = "navigate_to_form" THEN [ pc |-> "fill", ret |-> << "", "" >> ]
    ELSE IF stage = "fill_form"
    THEN IF ok THEN [ pc |-> "submit", ret |-> << "", "" >> ]
         ELSE [ pc |-> "append", ret |-> << PyFalse, "Form filling failed" >> ]
    ELSE IF ok THEN [ pc |-> "check", ret |-> << "", "" >> ]
         ELSE [ pc |-> "append", ret |-> << PyFalse, "Form submission failed" >> ]

\* Gate that goes on to check_result after a failed submission
Gate_ContinuesAfterSubmit(stage, ok) ==
    IF stage = "navigate_to_form"
    THEN IF ok THEN [ pc |-> "fill", ret |-> << "", "" >> ]
         ELSE [ pc |-> "append", ret |-> << PyFalse, "Navigation failed" >> ]
    ELSE IF stage = "fill_form"
    THEN IF ok THEN [ pc |-> "submit", ret |-> << "", "" >> ]
         ELSE [ pc |-> "append", ret |-> << PyFalse, "Form filling failed" >> ]
    ELSE [ pc |-> "check", ret |-> << "", "" >> ]

\* Gate that goes to the screenshot with the failure pair when a stage failed
Gate_ScreenshotOnFailure(stage, ok) ==
    IF stage = "navigate_to_form"
    THEN IF ok THEN [ pc |-> "fill", ret |-> << "", "" >> ]
         ELSE [ pc |-> "screenshot", ret |-> << PyFalse, "Navigation failed" >> ]
    ELSE IF stage = "fill_form"
    THEN IF ok THEN [ pc |-> "submit", ret |-> << "", "" >> ]
         ELSE [ pc |-> "screenshot", ret |-> << PyFalse, "Form filling failed" >> ]
    ELSE IF ok THEN [ pc |-> "check", ret |-> << "", "" >> ]
         ELSE [ pc |-> "screenshot", ret |-> << PyFalse, "Form submission failed" >> ]

\* Gate that tries the navigation again when it failed
Gate_RetriesNavigation(stage, ok) ==
    IF stage = "navigate_to_form"
    THEN IF ok THEN [ pc |-> "fill", ret |-> << "", "" >> ]
         ELSE [ pc |-> "navigate", ret |-> << "", "" >> ]
    ELSE IF stage = "fill_form"
    THEN IF ok THEN [ pc |-> "submit", ret |-> << "", "" >> ]
         ELSE [ pc |-> "append", ret |-> << PyFalse, "Form filling failed" >> ]
    ELSE IF ok THEN [ pc |-> "check", ret |-> << "", "" >> ]
         ELSE [ pc |-> "append", ret |-> << PyFalse, "Form submission failed" >> ]

\* lines 264-274: what process_test_case does with a stage's boolean result:
\* where it goes on and the pair it returns when it returns at once
Gate(stage, ok) ==
    IF stage = "navigate_to_form"
    THEN IF ok THEN [ pc |-> "fill", ret |-> << "", "" >> ]
         ELSE [ pc |-> "append", ret |-> << PyFalse, "Navigation failed" >> ]
    ELSE IF stage = "fill_form"
    THEN IF ok THEN [ pc |-> "submit", ret |-> << "", "" >> ]
         ELSE [ pc |-> "append", ret |-> << PyFalse, "Form filling failed" >> ]
    ELSE IF ok THEN [ pc |-> "check", ret |-> << "", "" >> ]
         ELSE [ pc |-> "append", ret |-> << PyFalse, "Form submission failed" >> ]

\* ExceptionResult without the exception's message
ExceptionResult_NoMessage(msg) == << PyFalse, "Exception" >>

\* lines 286-288: the pair returned when an exception reaches the handler of
\* process_test_case
ExceptionResult(msg) == << PyFalse, "Exception: " \o msg >>

\* ------------------------------------------------------------------ state
VARIABLES
    byTypeDefined,  \* the Selenium release defines By.TYPE
    csv_file,       \* the record source: [status, header, rows]
    driver,         \* "none" | "open" | "closed"
    pc,             \* where main / run_from_csv / process_test_case stands
    test_cases,     \* list(reader)
    i,              \* the loop index of run_from_csv
    results,        \* the result list of run_from_csv
    ret,            \* the pair process_test_case returns for record i
    page,           \* the page the browser shows
    values,         \* the values of the page's fields
    page_source,    \* driver.page_source
    current_url,    \* driver.current_url
    queries,        \* the find_element lookups of the stage that ran last
    clicks,         \* the clicks of the stage that ran last
    stageLog,       \* the stages called for record i: << name, succeeded >>
    navOutcome,     \* how navigation ended for record i
    raised,         \* the exceptions raised for record i: << where, str(e) >>
    errors,         \* the error-level log lines written for record i
    shots,          \* the screenshot captures attempted for record i
    pauses,         \* the time.sleep(2) pauses made between records
    batchLog,       \* the "Test case #i - STATUS: message" log lines
    reports,        \* the report files written
    returned,       \* << results >> once run_from_csv has returned
    console         \* the summary main printed

vars ==
    << byTypeDefined, csv_file, driver, pc, test_cases, i, results, ret, page,
       values, page_source, current_url, queries, clicks, stageLog, navOutcome,
       raised, errors, shots, pauses, batchLog, reports, returned, console >>

envVars == << byTypeDefined, csv_file >>
browserVars == << page, values, page_source, current_url, queries, clicks >>
recordVars == << stageLog, navOutcome, raised, errors, shots >>
outVars == << batchLog, reports, returned, console >>

NoRet == << "", "" >>

\* the record sources: a file of up to MaxRecords rows under the full header
\* or without a url column, a one-row file under another header, a file
\* that does not exist, a file that cannot be read
CsvFiles ==
    { [ status |-> "ok", header |-> h, rows |-> n ] :
          h \in { RequiredKeys, RequiredKeys \ {"url"} }, n \in 0..MaxRecords }
    \cup { [ status |-> "ok", header |-> h, rows |-> 1 ] : h \in Headers }
    \cup { [ status |-> st, header |-> RequiredKeys, rows |-> 1 ] :
          st \in { "missing", "unreadable" } }

Init ==
    /\ byTypeDefined \in BOOLEAN
    /\ csv_file \in CsvFiles
    /\ driver = "none"
    /\ pc = "main"
    /\ test_cases = << >>
    /\ i = 1
    /\ results = << >>
    /\ ret = NoRet
    /\ page = BlankPage
    /\ values = << >>
    /\ page_source = ""
    /\ current_url = ""
    /\ queries = << >>
    /\ clicks = << >>
    /\ stageLog = << >>
    /\ navOutcome = ""
    /\ raised = << >>
    /\ errors = << >>
    /\ shots = 0
    /\ pauses = 0
    /\ batchLog = << >>
    /\ reports = << >>
    /\ returned = << >>
    /\ console = << >>

\* ----------------------------------------------------------------- main
\* main line 401: EventRegistrationBot(...) with setup_driver; the browser
\* may fail to start, or start and then fail in execute_script
SetupDriver ==
    /\ pc = "main"
    /\ \E outcome \in { "ok", "no_browser", "script_failed" } :
         /\ driver' = IF outcome = "no_browser" THEN "none" ELSE "open"
         /\ pc' = IF outcome = "ok" THEN "load" ELSE "aborted"
    /\ UNCHANGED << envVars, test_cases, i, results, ret, browserVars,
                    recordVars, pauses, outVars >>

\* LoadTarget that goes on to save_results_log when the file is missing
LoadTarget_SavesWhenMissing(status, rows) ==
    IF status = "ok" /\ rows > 0 THEN "navigate" ELSE "save"

\* run_from_csv lines 292-300, 338 and 342-347: where run_from_csv goes once
\* the file was opened and read: into the loop, to save_results_log when
\* there is no row, back to main when open or the reader raised
LoadTarget(status, rows) ==
    IF status = "ok" THEN IF rows > 0 THEN "navigate" ELSE "save"
    ELSE "summary"

\* run_from_csv lines 292-297 and 342-347
LoadCsv ==
    /\ pc = "load"
    /\ pc' = LoadTarget(csv_file.status, csv_file.rows)
    /\ IF csv_file.status = "ok"
       THEN /\ test_cases' = [ k \in 1..csv_file.rows |-> Row(csv_file.header, k) ]
            /\ returned' = returned
       ELSE /\ test_cases' = test_cases
            /\ returned' = << << >> >>
    /\ UNCHANGED << envVars, driver, i, results, ret, browserVars, recordVars,
                    pauses, batchLog, reports, console >>

\* the field values of a freshly loaded page
Prefilled(p) == [ n \in p.names |-> "old" ]

FormSource == "<html><body><h1>Register</h1></body></html>"

\* process_test_case lines 261-266 with navigate_to_form (lines 98-110):
\* driver.get raises ("error"), the wait for the form times out ("timeout"),
\* or the form page p is there ("ok")
Navigate ==
    /\ pc = "navigate"
    /\ shots' = 0
    /\ queries' = << >>
    /\ clicks' = << >>
    /\ IF "url" \notin DOMAIN test_cases[i]
       THEN /\ ret' = ExceptionResult(KeyError("url"))
            /\ pc' = "append"
            /\ stageLog' = << >>
            /\ navOutcome' = "not_called"
            /\ raised' = << << "process_test_case", KeyError("url") >> >>
            /\ errors' = << "Error in test case #" \o ToString(i) \o ": "
                              \o KeyError("url") >>
            /\ UNCHANGED << page, values, page_source, current_url >>
       ELSE \E outcome \in { "ok", "timeout", "error" }, p \in FormPages :
            /\ outcome # "ok" => p = StdPage
            /\ stageLog' = << << "navigate_to_form", outcome = "ok" >> >>
            /\ navOutcome' = outcome
            /\ page' = IF outcome = "ok" THEN p
                       ELSE IF outcome = "timeout" THEN BlankPage ELSE page
            /\ values' = IF outcome = "ok" THEN Prefilled(p)
                         ELSE IF outcome = "timeout" THEN << >> ELSE values
            /\ page_source' = IF outcome = "error" THEN page_source
                              ELSE FormSource
            /\ current_url' = IF outcome = "error" THEN current_url
                              ELSE test_cases[i]["url"]
            /\ raised' = IF outcome = "timeout"
                           THEN << << "navigate_to_form", "Message: timeout" >> >>
                         ELSE IF outcome = "error"
                           THEN << << "navigate_to_form", "Message: unreachable" >> >>
                         ELSE << >>
            /\ errors' = IF outcome = "timeout"
                           THEN << "Timeout waiting for form to load at: "
                                     \o test_cases[i]["url"] >>
                         ELSE IF outcome = "error"
                           THEN << "Error navigating to form: Message: unreachable" >>
                         ELSE << >>
            /\ ret' = Gate("navigate_to_form", outcome = "ok").ret
            /\ pc' = Gate("navigate_to_form", outcome = "ok").pc
    /\ UNCHANGED << envVars, driver, test_cases, i, results, pauses, outVars >>

\* process_test_case lines 268-270 with fill_form (lines 112-173)
Fill ==
    /\ pc = "fill"
    /\ \E fault \in FillFaults :
         LET out == fill_form(page, values, test_cases[i], fault)
             ok == out.status = "ok"
         IN  /\ values' = out.values
             /\ queries' = out.queries
             /\ clicks' = out.clicks
             /\ stageLog' = Append(stageLog, << "fill_form", ok >>)
             /\ raised' = IF ok THEN raised
                          ELSE Append(raised, << "fill_form", out.exc >>)
             /\ errors' = IF ok THEN errors
                          ELSE Append(errors, "Error filling form: " \o out.exc)
             /\ ret' = Gate("fill_form", ok).ret
             /\ pc' = Gate("fill_form", ok).pc
    /\ UNCHANGED << envVars, driver, test_cases, i, results, page, page_source,
                    current_url, navOutcome, shots, pauses, outVars >>

\* process_test_case lines 272-274 with submit_form (lines 175-207); a click
\* loads the response page
Submit ==
    /\ pc = "submit"
    /\ \E clickRaises \in BOOLEAN, src \in PageSources, url \in ResponseUrls :
         LET out == submit_form(page, byTypeDefined, clickRaises)
             ok == out.status = "ok"
         IN  /\ ~ok => /\ src = CHOOSE t \in PageSources : TRUE
                       /\ url = CHOOSE u \in ResponseUrls : TRUE
                       /\ clickRaises = (out.exc = ElementFault("submit"))
             /\ queries' = out.queries
             /\ clicks' = out.clicks
             /\ stageLog' = Append(stageLog, << "submit_form", ok >>)
             /\ raised' = IF out.exc = "" THEN raised
                          ELSE Append(raised, << "submit_form", out.exc >>)
             /\ errors' = IF ok THEN errors ELSE Append(errors, out.error)
             /\ page' = IF ok THEN BlankPage ELSE page
             /\ values' = IF ok THEN << >> ELSE values
             /\ page_source' = IF ok THEN src ELSE page_source
             /\ current_url' = IF ok THEN url ELSE current_url
             /\ ret' = Gate("submit_form", ok).ret
             /\ pc' = Gate("submit_form", ok).pc
    /\ UNCHANGED << envVars, driver, test_cases, i, results, navOutcome, shots,
                    pauses, outVars >>

\* process_test_case line 277 with check_result (lines 220-257)
Check ==
    /\ pc = "check"
    /\ \E raises \in BOOLEAN :
         /\ ret' = check_result(page_source, current_url, raises)
         /\ stageLog' = Append(stageLog, << "check_result", ~raises >>)
         /\ raised' = IF raises
                      THEN Append(raised, << "check_result", "Message: no such window" >>)
                      ELSE raised
         /\ errors' = IF raises
                      THEN Append(errors, "Error checking result: Message: no such window")
                      ELSE errors
    /\ pc' = "screenshot"
    /\ UNCHANGED << envVars, driver, test_cases, i, results, browserVars,
                    navOutcome, shots, pauses, outVars >>

\* AfterScreenshot that fails the record when the capture raised
AfterScreenshot_FailsOnError(pair, raises) ==
    IF raises THEN << PyFalse, "Screenshot failed" >> ELSE pair

\* lines 282-284: the pair process_test_case returns after take_screenshot,
\* whose return value it does not look at
AfterScreenshot(pair, raises) == pair

\* process_test_case lines 279-284 with take_screenshot (lines 209-218): the
\* capture may raise inside take_screenshot, which logs it and returns None
Screenshot ==
    /\ pc = "screenshot"
    /\ \E raises \in BOOLEAN :
         /\ stageLog' = Append(stageLog, << "take_screenshot", ~raises >>)
         /\ raised' = IF raises
                      THEN Append(raised, << "take_screenshot", "Message: no such window" >>)
                      ELSE raised
         /\ errors' = IF raises
                      THEN Append(errors, "Error taking screenshot: Message: no such window")
                      ELSE errors
         /\ ret' = AfterScreenshot(ret, raises)
    /\ shots' = shots + 1
    /\ pc' = "append"
    /\ UNCHANGED << envVars, driver, test_cases, i, results, browserVars,
                    navOutcome, pauses, outVars >>

\* Result with the records numbered from 0 (enumerate without its start)
Result_ZeroBased(k, data, pair) ==
    [ test_case |-> k - 1,
      name |-> Get(data, "name"), email |-> Get(data, "email"),
      phone |-> Get(data, "phone"), event |-> Get(data, "event"),
      url |-> Get(data, "url"),
      success |-> pair[1], message |-> pair[2] ]

\* the result dict of run_from_csv lines 303-313
Result(k, data, pair) ==
    [ test_case |-> k,
      name |-> Get(data, "name"), email |-> Get(data, "email"),
      phone |-> Get(data, "phone"), event |-> Get(data, "event"),
      url |-> Get(data, "url"),
      success |-> pair[1], message |-> pair[2] ]

\* lines 317-318: the log line of record k
LogLine(k, pair) == << k, StatusWord(pair[1]), pair[2] >>

\* PauseAfter that pauses after every record
PauseAfter_Always(k, n) == TRUE

\* line 321: whether time.sleep(2) follows record k of n
PauseAfter(k, n) == k < n

\* run_from_csv lines 300-322: the result of record i is appended, then the
\* pause before the next record, then the loop moves on. No statement of the
\* loop body raises once process_test_case has returned, so the handler of
\* lines 324-336 is never entered
AppendResult ==
    /\ pc = "append"
    /\ results' = Append(results, Result(i, test_cases[i], ret))
    /\ pauses' = IF PauseAfter(i, Len(test_cases)) THEN pauses + 1 ELSE pauses
    /\ batchLog' = Append(batchLog, LogLine(i, ret))
    /\ i' = i + 1
    /\ pc' = IF i < Len(test_cases) THEN "navigate" ELSE "save"
    /\ UNCHANGED << envVars, driver, test_cases, ret, browserVars, recordVars,
                    reports, returned, console >>

\* run_from_csv lines 338-340 with save_results_log (lines 349-382): writing
\* the file may raise, which is logged; the results are returned either way
SaveResultsLog ==
    /\ pc = "save"
    /\ \E written \in BOOLEAN :
         reports' = IF written THEN Append(reports, Report(results)) ELSE reports
    /\ returned' = << results >>
    /\ pc' = "summary"
    /\ UNCHANGED << envVars, driver, test_cases, i, results, ret, browserVars,
                    recordVars, pauses, batchLog, console >>

\* main lines 407-423
PrintSummary ==
    /\ pc = "summary"
    /\ console' = << Summary(returned[1]) >>
    /\ pc' = "close"
    /\ UNCHANGED << envVars, driver, test_cases, i, results, ret, browserVars,
                    recordVars, pauses, batchLog, reports, returned >>

\* main lines 429-430 with close (lines 384-388)
Close ==
    /\ pc = "close"
    /\ driver' = IF driver = "open" THEN "closed" ELSE driver
    /\ pc' = "done"
    /\ UNCHANGED << envVars, test_cases, i, results, ret, browserVars,
                    recordVars, pauses, outVars >>

\* the positions of main inside its try statement (lines 405-423)
InTry ==
    { "load", "navigate", "fill", "submit", "check", "screenshot", "append",
      "save", "summary" }

\* main lines 425-426 and 429-430: a KeyboardInterrupt raised while main is
\* in its try statement passes every `except Exception` on its way, main
\* prints that the run was stopped and the finally clause closes the bot
Interrupt ==
    /\ pc \in InTry
    /\ driver' = IF driver = "open" THEN "closed" ELSE driver
    /\ pc' = "stopped"
    /\ UNCHANGED << envVars, test_cases, i, results, ret, browserVars,
                    recordVars, pauses, outVars >>

\* the steps of the program itself
Run ==
    \/ SetupDriver
    \/ LoadCsv
    \/ Navigate
    \/ Fill
    \/ Submit
    \/ Check
    \/ Screenshot
    \/ AppendResult
    \/ SaveResultsLog
    \/ PrintSummary
    \/ Close

Next ==
    \/ Run
    \/ Interrupt

Spec == Init /\ [][Next]_vars

\* an uninterrupted run in which every call returns or raises: the
\* interpreter goes on to the next statement whenever there is one
LiveSpec == Init /\ [][Run]_vars /\ WF_vars(Run)

\* ---------------------------------------------------------- properties
Last(seq) == seq[Len(seq)]

\* the result of a record has just been appended: stageLog, navOutcome,
\* raised, errors and shots describe the record of the last result
JustRecorded == pc \in { "navigate", "save" } /\ Len(results) > 0

StageNames == [ k \in 1..Len(stageLog) |-> stageLog[k][1] ]

Called(stage) == \E k \in 1..Len(stageLog) : stageLog[k][1] = stage

Succeeded(stage) == \E k \in 1..Len(stageLog) : stageLog[k] = << stage, TRUE >>

RaisedIn(where) == \E k \in 1..Len(raised) : raised[k][1] = where

\* C1: once run_from_csv has returned from a loaded record source of N rows,
\* the returned list has exactly N results and the k-th result carries index
\* k and the fields of the k-th row, whatever failed or raised on the way;
\* while the loop runs there is one result per record already handled.
C1_OneResultPerRecord ==
    /\ pc \in { "navigate", "fill", "submit", "check", "screenshot", "append" }
          => Len(results) = i - 1
    /\ (returned # << >> /\ csv_file.status = "ok") =>
          /\ Len(returned[1]) = csv_file.rows
          /\ \A k \in 1..Len(returned[1]) :
                /\ returned[1][k].test_case = k
                /\ \A key \in RequiredKeys :
                      returned[1][k][key] =
                          IF key \in csv_file.header THEN Person(k)[key]
                          ELSE "Unknown"

\* C1 witness: a returned batch of two records, the first failed in
\* fill_form, the second succeeded
C1_Witness ==
    /\ returned # << >>
    /\ Len(returned[1]) = 2
    /\ returned[1][1].message = "Form filling failed"
    /\ returned[1][2].success = PyTrue

\* C2 (as claimed): whenever an exception was raised while a record was
\* processed, the record's result is a failure whose message carries the
\* message of an exception raised.
C2_MessageCarriesException ==
    (JustRecorded /\ raised # << >>) =>
        /\ Last(results).success = PyFalse
        /\ \E k \in 1..Len(raised) : Contains(raised[k][2], Last(results).message)

\* C2 (amended): an exception raised while record i is processed never aborts
\* the batch: exactly one result is recorded for record i and the loop goes
\* on to the next record. The result is a failure with "Exception: <message>"
\* when the exception is raised in process_test_case outside the stage
\* methods; raised inside navigate_to_form, fill_form or submit_form it gives
\* the failure with the stage's fixed message, inside check_result the
\* failure "Error checking result", and inside take_screenshot it leaves the
\* classification result as it is.
C2_ExceptionsIsolated ==
    /\ JustRecorded =>
          /\ Len(results) = i - 1
          /\ Last(results).test_case = i - 1
          /\ pc = "save" <=> Len(results) = Len(test_cases)
          /\ RaisedIn("process_test_case") =>
                /\ Last(results).success = PyFalse
                /\ Last(results).message = "Exception: " \o raised[1][2]
          /\ RaisedIn("navigate_to_form") =>
                /\ Last(results).success = PyFalse
                /\ Last(results).message = "Navigation failed"
          /\ RaisedIn("fill_form") =>
                /\ Last(results).success = PyFalse
                /\ Last(results).message = "Form filling failed"
          /\ RaisedIn("submit_form") =>
                /\ Last(results).success = PyFalse
                /\ Last(results).message = "Form submission failed"
          /\ RaisedIn("check_result") =>
                /\ Last(results).success = PyFalse
                /\ Last(results).message = "Error checking result"
          /\ (RaisedIn("take_screenshot") /\ ~RaisedIn("check_result")) =>
                << Last(results).success, Last(results).message >>
                    = Classify(page_source, current_url)
    /\ pc \in { "summary", "close", "done" } /\ csv_file.status = "ok"
          => Len(results) = csv_file.rows

\* C2 witness: the first of two records raised KeyError('url') in
\* process_test_case, its failure is recorded and the loop is at record 2
C2_Witness ==
    /\ pc = "navigate"
    /\ i = 2
    /\ Len(test_cases) = 2
    /\ raised = << << "process_test_case", "'url'" >> >>
    /\ Last(results).message = "Exception: 'url'"

\* C3: a record whose navigation timed out waiting for the form gets the
\* result (failure, "Navigation failed"), and for that record
\* navigate_to_form is the only stage ever called.
C3_NavigationTimeout ==
    /\ navOutcome = "timeout" =>
          /\ pc \notin { "fill", "submit", "check", "screenshot" }
          /\ StageNames = << "navigate_to_form" >>
          /\ shots = 0
    /\ (JustRecorded /\ navOutcome = "timeout") =>
          /\ Last(results).success = PyFalse
          /\ Last(results).message = "Navigation failed"

\* C3 witness: the result of a record whose navigation timed out is recorded
C3_Witness ==
    /\ JustRecorded
    /\ navOutcome = "timeout"
    /\ Last(results).message = "Navigation failed"

\* C4: the stages of a record are called in the order navigate, fill,
\* submit, classify, each at most once, and each only after the one before
\* it succeeded; a failing fill ends the record with (failure, "Form filling
\* failed"), a failing submit with (failure, "Form submission failed"), no
\* later stage being called; when the three succeed the record's outcome and
\* message are those check_result returned.
C4_StageOrder ==
    /\ Len(stageLog) <= Len(StageOrder)
    /\ StageNames = SubSeq(StageOrder, 1, Len(stageLog))
    /\ \A k \in 2..Len(stageLog) : k <= 4 => stageLog[k - 1][2]
    /\ pc = "fill" => stageLog = << << "navigate_to_form", TRUE >> >>
    /\ pc = "submit" => Len(stageLog) = 2 /\ stageLog[2][2]
    /\ pc = "check" => Len(stageLog) = 3 /\ stageLog[3][2]
    /\ JustRecorded =>
          /\ (Called("fill_form") /\ ~Succeeded("fill_form")) =>
                /\ Len(stageLog) = 2
                /\ Last(results).success = PyFalse
                /\ Last(results).message = "Form filling failed"
          /\ (Called("submit_form") /\ ~Succeeded("submit_form")) =>
                /\ Len(stageLog) = 3
                /\ Last(results).success = PyFalse
                /\ Last(results).message = "Form submission failed"
          /\ Succeeded("submit_form") =>
                /\ Called("check_result")
                /\ << Last(results).success, Last(results).message >>
                      = check_result(page_source, current_url,
                                     RaisedIn("check_result"))

\* C4 witness: a record went through navigate, fill and submit and its
\* recorded result is the Unknown classification
C4_Witness ==
    /\ JustRecorded
    /\ Succeeded("submit_form")
    /\ Len(stageLog) = 5
    /\ Last(results).success = PyNone

\* the keyword lists of the classifier as the specification gives them
SpecSuccessKeywords ==
    { "success", "thank you", "registered", "confirmation", "submitted",
      "complete", "received", "congratulations" }

SpecFailureKeywords ==
    { "error", "invalid", "required", "missing", "failed", "incorrect",
      "please", "must", "cannot" }

SpecRedirectHints == { "success", "thank", "confirm" }

\* text contains one of the words, whatever the case of its letters
HasWord(words, text) == \E w \in words : Contains(w, Lower(text))

\* check_result has returned for record i after reading page_source and
\* current_url; ret is the pair it returned
Classified ==
    /\ pc \in { "screenshot", "append" }
    /\ Succeeded("check_result")

\* C5: when the page text contains a success keyword, in any case and
\* anywhere, check_result returns Success, also when the text contains
\* failure keywords and whatever the current URL is.
C5_SuccessKeywordWins ==
    (Classified /\ HasWord(SpecSuccessKeywords, page_source)) => ret[1] = PyTrue

\* C5 witness: a page with both a success and a failure keyword was
\* classified as Success
C5_Witness ==
    /\ Classified
    /\ HasWord(SpecSuccessKeywords, page_source)
    /\ HasWord(SpecFailureKeywords, page_source)
    /\ ret[1] = PyTrue

\* C6: when the page text contains no success keyword and a failure
\* keyword, check_result returns Failure with "Error detected", whatever the
\* current URL is.
C6_FailureKeyword ==
    ( /\ Classified
      /\ ~HasWord(SpecSuccessKeywords, page_source)
      /\ HasWord(SpecFailureKeywords, page_source) )
        => ret = << PyFalse, "Error detected" >>

\* C6 witness: a page with the failure keyword "invalid" and no success
\* keyword, reached at a URL with a redirect hint, was classified
C6_Witness ==
    /\ Classified
    /\ ~HasWord(SpecSuccessKeywords, page_source)
    /\ Contains("invalid", Lower(page_source))
    /\ HasWord(SpecRedirectHints, current_url)
    /\ ret[2] = "Error detected"

\* the page text has no keyword and the URL has a redirect hint
RedirectCase ==
    /\ Classified
    /\ ~HasWord(SpecSuccessKeywords, page_source)
    /\ ~HasWord(SpecFailureKeywords, page_source)
    /\ HasWord(SpecRedirectHints, current_url)

\* C7 (as claimed): with no keyword in the text and a redirect hint in the
\* URL, check_result returns Success with the message "Redirected to
\* success page".
C7_RedirectMessage ==
    RedirectCase => ret = << PyTrue, "Redirected to success page" >>

\* C7 (amended): with no keyword in the text and a redirect hint in the URL,
\* check_result returns Success with the message "Success".
C7_RedirectIsSuccess ==
    RedirectCase => ret = << PyTrue, "Success" >>

\* C7 witness: a page without keywords at a URL with a redirect hint was
\* classified as Success
C7_Witness == RedirectCase /\ ret[1] = PyTrue

\* the page text has no keyword and the URL has no redirect hint
UnclearCase ==
    /\ Classified
    /\ ~HasWord(SpecSuccessKeywords, page_source)
    /\ ~HasWord(SpecFailureKeywords, page_source)
    /\ ~HasWord(SpecRedirectHints, current_url)

\* C8 (as claimed): with no keyword in the text and no redirect hint in the
\* URL, check_result returns the Unknown outcome with the message "Form
\* submission result unclear".
C8_UnclearMessage ==
    UnclearCase => ret = << PyNone, "Form submission result unclear" >>

\* C8 (amended): with no keyword in the text and no redirect hint in the
\* URL, check_result returns the Unknown outcome (None, neither Success nor
\* Failure) with the message "Unknown".
C8_UnclearIsUnknown ==
    UnclearCase => ret = << PyNone, "Unknown" >>

\* C8 witness: a page without keywords at a URL without hint was classified
C8_Witness == UnclearCase /\ ret[1] = PyNone

\* the phone candidates in the order the specification gives them
SpecPhoneOrder == << "phone", "phone_number", "telephone", "mobile" >>

SpecPhoneNames == { SpecPhoneOrder[k] : k \in 1..Len(SpecPhoneOrder) }

IsPhoneQuery(q) == q[1] = "name" /\ q[2] \in SpecPhoneNames

\* the position of the first candidate the page has, Len + 1 when none
FirstPhone ==
    IF \E k \in 1..Len(SpecPhoneOrder) : SpecPhoneOrder[k] \in page.names
    THEN CHOOSE k \in 1..Len(SpecPhoneOrder) :
            /\ SpecPhoneOrder[k] \in page.names
            /\ \A j \in 1..(k - 1) : SpecPhoneOrder[j] \notin page.names
    ELSE Len(SpecPhoneOrder) + 1

InQueries(q) == \E k \in 1..Len(queries) : queries[k] = q

\* fill_form was the last stage called for record i and it got to the
\* phone lookups; queries and values are as it left them
PhoneLookedUp ==
    /\ pc \in { "submit", "append" }
    /\ Len(stageLog) = 2
    /\ InQueries(<< "name", "phone" >>)

\* C9: fill_form queries the phone candidates in the order phone,
\* phone_number, telephone, mobile and stops at the first the page has; once
\* past the phone step, the record's phone is the value of exactly that
\* element and the other phone elements are untouched.
C9_PhoneOrder ==
    PhoneLookedUp =>
        /\ SelectSeq(queries, IsPhoneQuery)
              = [ k \in 1..(IF FirstPhone > Len(SpecPhoneOrder)
                             THEN Len(SpecPhoneOrder) ELSE FirstPhone)
                    |-> << "name", SpecPhoneOrder[k] >> ]
        /\ (InQueries(<< "name", "event" >>) /\ FirstPhone <= Len(SpecPhoneOrder)) =>
              /\ values[SpecPhoneOrder[FirstPhone]] = test_cases[i]["phone"]
              /\ \A n \in (page.names \cap SpecPhoneNames)
                            \ { SpecPhoneOrder[FirstPhone] } : values[n] = "old"

\* C9 witness: on a page whose only phone element is "mobile", fill_form
\* succeeded after four lookups and the phone is the value of "mobile"
C9_Witness ==
    /\ pc = "submit"
    /\ page.names \cap SpecPhoneNames = { "mobile" }
    /\ Len(SelectSeq(queries, IsPhoneQuery)) = 4
    /\ values["mobile"] = test_cases[i]["phone"]

\* the text is the percentage 100 * s / t to one decimal
IsRateOf(text, s, t) ==
    \E x \in ((1000 * s) \div t)..((1000 * s) \div t + 1) :
        /\ text = ToString(x \div 10) \o "." \o ToString(x % 10) \o "%"
        /\ 2 * (IF x * t >= 1000 * s THEN x * t - 1000 * s ELSE 1000 * s - x * t) <= t

SuccessCount(rs) == Cardinality({ k \in 1..Len(rs) : rs[k].success = PyTrue })

\* the summary sm states the counts and the rate of the results rs
SummaryOf(sm, rs) ==
    /\ sm.total = Len(rs)
    /\ sm.successful = SuccessCount(rs)
    /\ sm.failed = sm.total - sm.successful
    /\ Len(rs) > 0 => Len(sm.rate) = 1 /\ IsRateOf(sm.rate[1], SuccessCount(rs), Len(rs))

\* C10: the report has one entry per result in input order and its summary
\* (like the summary main prints) states Total, Successful (the results
\* whose outcome is Success), Failed = Total - Successful and the rate
\* 100 * Successful / Total to one decimal; for two records of which the
\* first succeeds and the second fails navigation it shows SUCCESS, then
\* FAILURE "Navigation failed", Total 2, Successful 1, Failed 1, 50.0%.
C10_ReportSummary ==
    /\ \A r \in 1..Len(reports) :
          /\ SummaryOf(reports[r].summary, results)
          /\ Len(reports[r].entries) = Len(results)
          /\ \A k \in 1..Len(results) :
                /\ reports[r].entries[k].test_case = k
                /\ reports[r].entries[k].message = results[k].message
                /\ reports[r].entries[k].status = "SUCCESS"
                      <=> results[k].success = PyTrue
          /\ ( /\ Len(results) = 2
               /\ results[1].success = PyTrue
               /\ results[2].message = "Navigation failed" ) =>
                /\ reports[r].entries[1].status = "SUCCESS"
                /\ reports[r].entries[2].status = "FAILURE"
                /\ reports[r].summary
                      = [ total |-> 2, successful |-> 1, failed |-> 1,
                          rate |-> << "50.0%" >> ]
    /\ console # << >> => SummaryOf(console[1], returned[1])

\* C10 witness: the report of two records, the first a success, the second
\* timed out on navigation, with the rate 50.0%
C10_Witness ==
    /\ Len(reports) = 1
    /\ Len(results) = 2
    /\ results[1].success = PyTrue
    /\ navOutcome = "timeout"
    /\ results[2].message = "Navigation failed"
    /\ reports[1].summary.rate = << "50.0%" >>

\* the summary of an empty result list: the counts, no rate line
EmptySummary == [ total |-> 0, successful |-> 0, failed |-> 0, rate |-> << >> ]

\* C11: for an empty result list the report and the console summary state
\* Total 0, Successful 0, Failed 0 and no rate line (the division is not
\* made), and main gets to its summary and to the end.
C11_EmptySummary ==
    /\ \A r \in 1..Len(reports) :
          Len(results) = 0 =>
              /\ reports[r].summary = EmptySummary
              /\ reports[r].entries = << >>
    /\ (console # << >> /\ returned[1] = << >>) => console[1] = EmptySummary
    /\ pc \in { "close", "done" } => console # << >>

\* C11 witness: a record source without rows was run to the end, its report
\* written and its summary printed
C11_Witness ==
    /\ pc = "done"
    /\ csv_file.status = "ok"
    /\ csv_file.rows = 0
    /\ Len(reports) = 1
    /\ console[1].total = 0

\* C12: when the record source file does not exist, run_from_csv returns the
\* empty list, no record is processed (no stage is called, no result is
\* made) and save_results_log is not called.
C12_MissingFile ==
    csv_file.status = "missing" =>
        /\ pc \in { "main", "aborted", "load", "summary", "close", "done",
                    "stopped" }
        /\ test_cases = << >>
        /\ results = << >>
        /\ stageLog = << >>
        /\ navOutcome = ""
        /\ reports = << >>
        /\ pc \in { "summary", "close", "done" } => returned = << << >> >>

\* C12 witness: run_from_csv has returned the empty list for a missing file
\* and main has printed its summary
C12_Witness ==
    /\ csv_file.status = "missing"
    /\ pc = "close"
    /\ returned = << << >> >>
    /\ console[1].total = 0

\* the submit strategies in the order the specification lists them
SpecSubmitOrder ==
    << << "type", "submit" >>,
       << "xpath", "//button[contains(text(), 'Submit')]" >>,
       << "xpath", "//input[@value='Submit']" >>,
       << "xpath", "//button[contains(@class, 'submit')]" >> >>

\* submit_form was the last stage of the current record
SubmitJustRan ==
    /\ pc \in { "check", "append" }
    /\ Len(stageLog) > 0
    /\ Last(stageLog)[1] = "submit_form"

\* the click on the submit control raised
ClickRaised ==
    \E k \in 1..Len(raised) : raised[k] = << "submit_form", ElementFault("submit") >>

\* C13: submit_form looks the strategies up in the listed order, stops at the
\* first that matches, clicks that element once and returns True: a
\* successful submit made the lookups up to the clicked strategy and one
\* click, and submit_form returns False on a page that has a submit control
\* only when the click itself raised (the page is unchanged by a failed
\* submit).
C13_SubmitOrder ==
    SubmitJustRan =>
        /\ Len(queries) <= Len(SpecSubmitOrder)
        /\ queries = SubSeq(SpecSubmitOrder, 1, Len(queries))
        /\ Last(stageLog)[2] =>
              /\ Len(queries) >= 1
              /\ clicks = << Last(queries) >>
        /\ (~Last(stageLog)[2] /\ ~ClickRaised) =>
              \A k \in 1..Len(SpecSubmitOrder) : SpecSubmitOrder[k] \notin page.submit
        /\ (SpecSubmitOrder[1] \in page.submit /\ ~Last(stageLog)[2]) =>
              Len(queries) = 1

\* fill_form was the last stage of the current record
FillJustRan ==
    /\ pc \in { "submit", "append" }
    /\ Len(stageLog) > 0
    /\ Last(stageLog)[1] = "fill_form"

\* the message is that of a NoSuchElementException
IsNoSuchElement(msg) ==
    LET head == NoSuchElement("")
    IN  Len(msg) >= Len(head) /\ SubSeq(msg, 1, Len(head)) = head

\* the exception that made fill_form return False
FillException == Last(raised)[2]

NoPhoneField == \A c \in SpecPhoneNames : c \notin page.names

NoEventField ==
    /\ page.event = "absent"
    /\ \A key \in DOMAIN test_cases[i] :
          key = "event" => test_cases[i][key] \notin page.radios

\* C15: a page without the name or the email field fails the record with
\* "Form filling failed" and submit_form is not called; a page without any
\* phone candidate and/or without an event dropdown and a matching option
\* does not: when fill_form fails on a page that has name and email, the
\* exception is not the absence of an element, and when no call raised
\* fill_form returned True and the record is at submit_form.
C15_RequiredAndOptional ==
    /\ FillJustRan =>
          /\ ({ "name", "email" } \ page.names # {}) =>
                /\ ~Last(stageLog)[2]
                /\ ret = << PyFalse, "Form filling failed" >>
          /\ ~Last(stageLog)[2] => pc = "append"
          /\ (~Last(stageLog)[2] /\ { "name", "email" } \subseteq page.names)
                => ~IsNoSuchElement(FillException)
          /\ Last(stageLog)[2] = (pc = "submit")
          /\ ((NoPhoneField \/ NoEventField) /\ ~RaisedIn("fill_form"))
                => /\ { "name", "email" } \subseteq page.names
                   /\ pc = "submit"
    /\ (\E k \in 1..Len(stageLog) : stageLog[k] = << "fill_form", FALSE >>)
          => /\ ~Called("submit_form")
             /\ JustRecorded => Last(results).message = "Form filling failed"

\* C15 witness: fill_form succeeded on a page with neither a phone candidate
\* nor an event field, and the record is at submit_form
C15_Witness ==
    /\ pc = "submit"
    /\ Succeeded("fill_form")
    /\ NoPhoneField
    /\ NoEventField
    /\ values["name"] = test_cases[i]["name"]

\* the lookups of an option element (radio button or checkbox) made so far
OptionLookups ==
    { k \in 1..Len(queries) :
        /\ queries[k][1] = "xpath"
        /\ \E t \in EventTexts :
              queries[k][2] = "//input[@value='" \o t \o "' or @id='" \o t \o "']" }

\* C16: fill_form looks the dropdown named "event" up first, and looks an
\* option element up only after that and only on a page that has no element
\* named "event"; with a dropdown on the page no option lookup is made.
C16_OptionOnlyWithoutDropdown ==
    FillJustRan =>
        /\ \A k \in OptionLookups :
              \E j \in 1..(k - 1) : queries[j] = << "name", "event" >>
        /\ OptionLookups # {} => page.event = "absent"
        /\ page.event = "select" => OptionLookups = {}

\* submit_form was called for the current record and returned False on a
\* page none of the submit strategies matches
NoSubmitControl ==
    /\ Called("submit_form")
    /\ ~Succeeded("submit_form")
    /\ \A k \in 1..Len(SpecSubmitOrder) : SpecSubmitOrder[k] \notin page.submit

\* C17 (as claimed): with no submit control on the page nothing is clicked and
\* the record's result is a failure with the message "Submit button not
\* found".
C17_NotFoundMessage ==
    (JustRecorded /\ NoSubmitControl) =>
        /\ clicks = << >>
        /\ Last(results).success = PyFalse
        /\ Last(results).message = "Submit button not found"

\* C17 (amended): a submit_form that returned True clicked one element, so
\* with no submit control on the page nothing is clicked, submit_form returns
\* False, check_result is not called and the record's result is a failure
\* with the message "Form submission failed"; "Submit button not found" is
\* the line logged when all four lookups were made and failed.
C17_NoSubmitControl ==
    /\ Succeeded("submit_form") =>
          /\ Len(clicks) = 1
          /\ \E k \in 1..Len(SpecSubmitOrder) : clicks[1] = SpecSubmitOrder[k]
    /\ NoSubmitControl =>
          /\ clicks = << >>
          /\ ~Called("check_result")
          /\ ret = << PyFalse, "Form submission failed" >>
          /\ queries = SpecSubmitOrder => Last(errors) = "Submit button not found"
          /\ byTypeDefined => queries = SpecSubmitOrder
          /\ JustRecorded =>
                /\ Last(results).success = PyFalse
                /\ Last(results).message = "Form submission failed"

\* C17 witness: a record was recorded whose page had no submit control, after
\* all four lookups failed
C17_Witness ==
    /\ JustRecorded
    /\ NoSubmitControl
    /\ queries = SpecSubmitOrder
    /\ Last(errors) = "Submit button not found"
    /\ Last(results).message = "Form submission failed"

\* navigate_to_form, fill_form and submit_form all returned True
ReachedClassification ==
    /\ Succeeded("navigate_to_form")
    /\ Succeeded("fill_form")
    /\ Succeeded("submit_form")

\* C18 (as claimed): for every record, whatever its outcome, exactly one
\* screenshot capture was attempted when its result is produced.
C18_AlwaysOneScreenshot ==
    JustRecorded => shots = 1

\* C18 (amended): a record whose navigation, fill and submit succeeded gets
\* exactly one screenshot capture, attempted after check_result and before
\* the result is produced, whatever check_result returned; a record that
\* failed in navigation, fill or submit, or raised, gets none.
C18_ScreenshotAfterClassification ==
    /\ shots \in { 0, 1 }
    /\ (shots = 1) = Called("take_screenshot")
    /\ Called("take_screenshot") =>
          /\ Len(stageLog) = 5
          /\ StageNames[4] = "check_result"
          /\ StageNames[5] = "take_screenshot"
          /\ ReachedClassification
    /\ (pc = "append" \/ JustRecorded) => ((shots = 1) = ReachedClassification)

\* C18 witness: of two recorded results the first is a success, whose
\* screenshot was taken, and the second failed in navigation without one
C18_Witness ==
    /\ JustRecorded
    /\ Len(results) = 2
    /\ results[1].success = PyTrue
    /\ Last(results).message = "Navigation failed"
    /\ shots = 0

\* the pair check_result returned for the current record
Classification ==
    check_result(page_source, current_url, RaisedIn("check_result"))

\* C19: once take_screenshot was called, the pair process_test_case returns
\* is the pair check_result returned, whether the capture succeeded or
\* raised; the recorded result carries that pair, so a record classified as a
\* success is recorded as a success when its capture raised.
C19_ScreenshotFrame ==
    Called("take_screenshot") =>
        /\ ret = Classification
        /\ JustRecorded =>
              /\ Last(results).success = Classification[1]
              /\ Last(results).message = Classification[2]
        /\ (RaisedIn("take_screenshot") /\ JustRecorded /\ Classification[1] = PyTrue)
              => StatusWord(Last(results).success) = "SUCCESS"

\* C19 witness: a record classified as a success was recorded as a success
\* although its capture raised
C19_Witness ==
    /\ JustRecorded
    /\ RaisedIn("take_screenshot")
    /\ Classification = << PyTrue, "Success" >>
    /\ Last(results).success = PyTrue

\* C20: while record i of the batch is processed, i - 1 pauses have been
\* made, one after each earlier record whatever its outcome; once the loop is
\* over a batch of N >= 1 records has made N - 1 pauses, none after the last
\* record, and an empty batch none.
C20_PausesBetweenRecords ==
    /\ pc \in { "navigate", "fill", "submit", "check", "screenshot", "append" }
          => /\ pauses = i - 1
             /\ pauses = Len(results)
    /\ pc \in { "save", "summary", "close", "done" }
          => /\ Len(test_cases) >= 1 => pauses = Len(test_cases) - 1
             /\ Len(test_cases) = 0 => pauses = 0

\* C20 witness: a batch of two records is over with one pause made, the
\* first record having failed
C20_Witness ==
    /\ pc = "save"
    /\ Len(test_cases) = 2
    /\ Len(results) = 2
    /\ results[1].success = PyFalse
    /\ pauses = 1

\* the process has ended: main returned, or the exception of the
\* constructor left main
Exited == pc \in { "done", "stopped", "aborted" }

\* C21: when the process ends, no browser session is left open, whether the
\* run completed, was interrupted by the user or failed while the bot was
\* being initialised after the browser had started.
C21_SessionClosedOnExit ==
    Exited => driver # "open"

\* the positions inside the loop of run_from_csv, in the order of the code
LoopOrder ==
    << "navigate", "fill", "submit", "check", "screenshot", "append" >>

Position(at) == CHOOSE k \in 1..Len(LoopOrder) : LoopOrder[k] = at

InLoop(at) == \E k \in 1..Len(LoopOrder) : LoopOrder[k] = at

\* a step inside the loop goes forward within the record, or from the append
\* of record i to the navigation of record i + 1, or out of the loop after
\* the last record
Forward ==
    InLoop(pc) =>
        \/ /\ InLoop(pc')
           /\ i' = i
           /\ Position(pc') > Position(pc)
        \/ /\ pc = "append"
           /\ pc' = "navigate"
           /\ i' = i + 1
           /\ Len(results') = i
        \/ /\ pc = "append"
           /\ pc' = "save"
           /\ i = Len(test_cases)
           /\ Len(results') = i

\* C22: in an uninterrupted run no stage is entered twice for a record and
\* run_from_csv, once it has begun, eventually returns; what it returns for
\* a loaded batch has the result of every record, in order, so the
\* processing of each record came to its end with its result recorded.
C22_Terminates ==
    /\ [][Forward]_vars
    /\ [](returned # << >> /\ csv_file.status = "ok" =>
            /\ Len(returned[1]) = Len(test_cases)
            /\ \A k \in 1..Len(test_cases) : returned[1][k].test_case = k)
    /\ (pc = "load") ~> (returned # << >> /\ Len(returned[1]) = Len(test_cases))

\* C22 witness: run_from_csv has returned after the second of two records,
\* the first of which failed in navigation and the second went through all
\* stages
C22_Witness ==
    /\ pc = "summary"
    /\ Len(test_cases) = 2
    /\ Len(returned[1]) = 2
    /\ returned[1][1].message = "Navigation failed"
    /\ Len(stageLog) = 5

\* the results of rs whose outcome is v
WithOutcome(rs, v) == { k \in 1..Len(rs) : rs[k].success = v }

\* the summary sm counts the successes of rs as successful and the failures
\* and the unknown outcomes of rs as failed
CountsUnknownAsFailed(sm, rs) ==
    /\ sm.total = Len(rs)
    /\ sm.successful = Cardinality(WithOutcome(rs, PyTrue))
    /\ sm.failed = Cardinality(WithOutcome(rs, PyFalse) \cup WithOutcome(rs, PyNone))

\* C23: a record whose outcome is the indeterminate one (None, "Unknown")
\* has the status FAILURE in its log line and in its report entry, and both
\* the report summary and the console summary count it as failed.
C23_UnknownIsFailure ==
    /\ Len(batchLog) = Len(results)
    /\ \A k \in WithOutcome(results, PyNone) :
          /\ batchLog[k] = << k, "FAILURE", "Unknown" >>
          /\ \A r \in 1..Len(reports) :
                k <= Len(reports[r].entries) =>
                    reports[r].entries[k].status = "FAILURE"
    /\ \A r \in 1..Len(reports) :
          /\ Len(reports[r].entries) = Len(results)
          /\ CountsUnknownAsFailed(reports[r].summary, results)
    /\ console # << >> => CountsUnknownAsFailed(console[1], returned[1])

\* C23 witness: the run is over with a record of unknown outcome, counted as
\* failed in the written report and in the printed summary
C23_Witness ==
    /\ pc = "done"
    /\ Len(results) = 2
    /\ results[1].success = PyTrue
    /\ results[2].success = PyNone
    /\ Len(reports) = 1
    /\ reports[1].summary.failed = 1
    /\ console[1].failed = 1

\* the four stages whose outcome decides the result of a record
DecidingStages ==
    { "navigate_to_form", "fill_form", "submit_form", "check_result" }

\* C24: in every result list a result is a success exactly if its message is
\* "Success"; the record of a success went through navigation, fill and
\* submit with each returning True, nothing was raised in these or in
\* check_result, and check_result classified the response as a success; a
\* record with a stage that returned False or raised is not a success.
C24_SuccessOnlyWhenClassified ==
    /\ \A k \in 1..Len(results) :
          (results[k].success = PyTrue) = (results[k].message = "Success")
    /\ returned # << >> =>
          \A k \in 1..Len(returned[1]) :
              (returned[1][k].success = PyTrue) = (returned[1][k].message = "Success")
    /\ (JustRecorded /\ Last(results).success = PyTrue) =>
          /\ ReachedClassification
          /\ Succeeded("check_result")
          /\ Classify(page_source, current_url) = << PyTrue, "Success" >>
          /\ \A s \in DecidingStages : ~RaisedIn(s)
          /\ ~RaisedIn("process_test_case")
    /\ (JustRecorded /\ \E k \in 1..Len(stageLog) :
                           /\ stageLog[k][1] \in DecidingStages
                           /\ ~stageLog[k][2])
          => Last(results).success = PyFalse
    /\ (JustRecorded /\ raised # << >> /\ Last(raised)[1] # "take_screenshot")
          => Last(results).success = PyFalse

\* C24 witness: a success was recorded after all four stages succeeded
C24_Witness ==
    /\ JustRecorded
    /\ Last(results).success = PyTrue
    /\ Last(results).message = "Success"
    /\ \A s \in DecidingStages : Succeeded(s)
    /\ raised = << >>

\* fill_form returned True for the current record and was its last stage
FillSucceeded == FillJustRan /\ Last(stageLog)[2]

\* fill_form returned False for the current record
FillFailed == \E k \in 1..Len(stageLog) : stageLog[k] = << "fill_form", FALSE >>

\* C25: fill_form returns True only if its phone and event steps met nothing
\* but absent elements: the element named "event", if any, is a dropdown,
\* the record's phone was typed into the first phone element the page has,
\* and a radio button or checkbox that was looked up and found was clicked.
\* Any other error in these steps makes fill_form return False: the record
\* ends with "Form filling failed" and submit_form is not called.
C25_OnlyAbsenceTolerated ==
    /\ FillSucceeded =>
          /\ page.event # "other"
          /\ FirstPhone <= Len(SpecPhoneOrder) =>
                /\ "phone" \in DOMAIN test_cases[i]
                /\ values[SpecPhoneOrder[FirstPhone]] = test_cases[i]["phone"]
          /\ (OptionLookups # {} /\ test_cases[i]["event"] \in page.radios) =>
                clicks = << test_cases[i]["event"] >>
          /\ (OptionLookups # {} /\ test_cases[i]["event"] \notin page.radios) =>
                clicks = << >>
    /\ (FillJustRan /\ InQueries(<< "name", "event" >>) /\ page.event = "other") =>
          /\ ~Last(stageLog)[2]
          /\ ~IsNoSuchElement(FillException)
    /\ FillFailed =>
          /\ ~Called("submit_form")
          /\ InLoop(pc) => pc \in { "append", "navigate" }
          /\ pc = "append" => ret = << PyFalse, "Form filling failed" >>
          /\ JustRecorded =>
                /\ Last(results).success = PyFalse
                /\ Last(results).message = "Form filling failed"

\* C25 witness: a record was recorded as "Form filling failed" because the
\* element named "event" of its page is not a dropdown
C25_Witness ==
    /\ JustRecorded
    /\ page.event = "other"
    /\ InQueries(<< "name", "event" >>)
    /\ FillFailed
    /\ ~IsNoSuchElement(Last(raised)[2])
    /\ Last(results).message = "Form filling failed"

====
